---- MODULE Spec2Model ----
(***************************************************************************)
(* The write -> score -> refine loop of IterativeWriterAgent.invoke        *)
(* (agents/iterative_writer.py) and the Style Guru scorer it calls         *)
(* (style_guru/scorer.py, style_guru/model.py).                            *)
(*                                                                         *)
(* Numbers.  A Python float is a record [k, v]: k = "fin" with v an        *)
(* integer, or k = "nan".  Sub-scores (statistical, rubric) are in         *)
(* hundredths (v = 80 is 0.80); a combined score and a threshold are in    *)
(* thousandths (v = 380 is 0.380), so that 0.3*s + 0.7*r is the integer    *)
(* 3*s + 7*r.  The values drawn below keep every comparison the code makes *)
(* either at least 0.001 apart or, for 0.3*0.5 + 0.7*0.5 >= 0.5, exact in  *)
(* binary floating point, so rounding never decides a comparison.          *)
(***************************************************************************)
EXTENDS Integers, Sequences, FiniteSets, TLC

(***************************************************************************)
(* Bounds of the model.                                                    *)
(***************************************************************************)
\* max_iterations is drawn from 0..MaxIter
MaxIter == 3

(***************************************************************************)
(* Program constants.                                                      *)
(***************************************************************************)
\* features.py:31, the length of the feature vector
FeatureLen == 5
\* scorer.py:36, 46, 111, 149: the neutral score 0.5, in hundredths
Neutral == 50
\* scorer.py:175: stat_score * 0.3, in tenths
StatWeight == 3
\* scorer.py:175: llm_score * 0.7, in tenths
LlmWeight == 7

(***************************************************************************)
(* Floats.                                                                 *)
(***************************************************************************)
Fin(v) == [k |-> "fin", v |-> v]
NaN == [k |-> "nan", v |-> 0]
IsFinite(x) == x.k = "fin"

\* c * x for a finite positive c
Scale(c, x) == IF IsFinite(x) THEN Fin(c * x.v) ELSE NaN
\* x + y
Plus(x, y) == IF IsFinite(x) /\ IsFinite(y) THEN Fin(x.v + y.v) ELSE NaN
\* x >= y: False when either is NaN
GE(x, y) == IsFinite(x) /\ IsFinite(y) /\ x.v >= y.v
\* x > y: False when either is NaN
GT(x, y) == IsFinite(x) /\ IsFinite(y) /\ x.v > y.v
\* np.clip(x, lo, hi): NaN stays NaN
Clip(x, lo, hi) ==
    IF ~IsFinite(x) THEN NaN
    ELSE IF x.v < lo THEN Fin(lo)
    ELSE IF x.v > hi THEN Fin(hi)
    ELSE x

(***************************************************************************)
(* style_guru/model.py: AdvancedNeuralAgent, by the shapes of its layers.  *)
(* A layer is [w |-> <<rows, cols>>, b |-> <<rows, cols>>].                 *)
(***************************************************************************)
\* hidden=[64, 32], the default architecture
Hidden == <<64, 32>>

LayersOf(sizes) ==
    [i \in 1..(Len(sizes) - 1) |->
        [w |-> <<sizes[i], sizes[i + 1]>>, b |-> <<1, sizes[i + 1]>>]]

\* __init__: layer_sizes = [input_size] + hidden + [1]
NewAgent(input_size) == LayersOf(<<input_size>> \o Hidden \o <<1>>)

\* save(): the archive holds w{i}, b{i} of every layer
SavedArchive(layers) == [status |-> "ok", layers |-> layers]
MissingArchive == [status |-> "missing", layers |-> <<>>]
UnreadableArchive == [status |-> "unreadable", layers |-> <<>>]

\* load() that reads the w{i} and leaves the biases as they are
LoadWeightsOnly(layers, file) ==
    [i \in 1..Len(layers) |->
        [layers[i] EXCEPT !.w = file.layers[i].w, !.wv = file.layers[i].wv]]

\* load(): np.load raises on a missing or unreadable file; data[f"w{i}"]
\* raises KeyError when the archive has fewer layers; the arrays are
\* assigned as they are, whatever their shapes
LoadRaises(layers, file) ==
    \/ file.status # "ok"
    \/ Len(file.layers) < Len(layers)
Load(layers, file) == [i \in 1..Len(layers) |-> file.layers[i]]

\* load(), by what it leaves in self.layers, raised or not: nothing is
\* assigned when np.load raises, and the layers before the first missing
\* key are assigned when data[f"w{i}"] raises
LoadInPlace(layers, file) ==
    IF file.status # "ok" THEN layers
    ELSE [i \in 1..Len(layers) |->
             IF i <= Len(file.layers) THEN file.layers[i] ELSE layers[i]]

\* a + b of shapes a, b broadcasts when each axis agrees or is 1
Broadcasts(a, b) ==
    /\ (a[1] = b[1] \/ a[1] = 1 \/ b[1] = 1)
    /\ (a[2] = b[2] \/ a[2] = 1 \/ b[2] = 1)

Larger(m, n) == IF m >= n THEN m ELSE n

\* forward(): the shape of the activation after the first n layers, or
\* <<0, 0>> once np.dot(a, w) + b has raised on mismatched shapes
RECURSIVE ForwardShape(_, _, _)
ForwardShape(layers, x, n) ==
    IF n = 0 THEN x
    ELSE LET a == ForwardShape(layers, x, n - 1)
             l == layers[n]
             z == <<a[1], l.w[2]>>
         IN IF a = <<0, 0>> THEN a
            ELSE IF a[2] # l.w[1] THEN <<0, 0>>
            ELSE IF ~Broadcasts(z, l.b) THEN <<0, 0>>
            ELSE <<Larger(z[1], l.b[1]), Larger(z[2], l.b[2])>>
ForwardRaises(layers, x) == ForwardShape(layers, x, Len(layers)) = <<0, 0>>


(***************************************************************************)
(* style_guru/scorer.py.  A text is [id, words]: which text it is and the  *)
(* number of words in it.                                                  *)
(***************************************************************************)
\* statistical_score(): everything inside the try; pred is the value
\* agent.predict(feats)[0, 0] computes from the loaded weights
StatisticalRaises(text, file) ==
    LET agent == NewAgent(FeatureLen)
    IN \/ LoadRaises(agent, file)
       \/ ForwardRaises(Load(agent, file), <<1, FeatureLen>>)

StatisticalScore(text, file, pred) ==
    IF StatisticalRaises(text, file) THEN Fin(Neutral)
    ELSE Clip(pred, 0, 100)

\* A reply of the language model to the rubric request:
\*   kind "error"  llm.invoke raised
\*   kind "text"   the content is not JSON
\*   kind "json"   a JSON object; overall is [has, num, val]: whether it
\*                 has "overall_score", whether that is a number, its value
Reply(kind, has, num, val) ==
    [kind |-> kind, overall |-> [has |-> has, num |-> num, val |-> val]]
ReplyError == Reply("error", FALSE, FALSE, NaN)
ReplyText == Reply("text", FALSE, FALSE, NaN)
ReplyNoOverall == Reply("json", FALSE, FALSE, NaN)
ReplyStrOverall == Reply("json", TRUE, FALSE, NaN)
ReplyJson(val) == Reply("json", TRUE, TRUE, val)

\* an unparseable reply scored 0 instead of the neutral 0.5
LlmBasedScoreZeroOnFailure(text, api_key, reply) ==
    IF api_key = ""
    THEN [score |-> Fin(Neutral), requested |-> FALSE,
          feedback |-> [kind |-> "nokey", overall |-> Fin(Neutral)]]
    ELSE LET failed == [score |-> Fin(0), requested |-> TRUE,
                        feedback |-> [kind |-> "failed", overall |-> Fin(0)]]
             overall_score == IF reply.overall.has THEN reply.overall.val
                              ELSE Fin(Neutral)
         IN IF reply.kind # "json" THEN failed
            ELSE IF reply.overall.has /\ ~reply.overall.num THEN failed
            ELSE [score |-> overall_score, requested |-> TRUE,
                  feedback |-> [kind |-> "report", overall |-> overall_score]]

\* the no-key branch tried after the request instead of before it
LlmBasedScoreKeyCheckedLate(text, api_key, reply) ==
    LET failed == [score |-> Fin(Neutral), requested |-> TRUE,
                   feedback |-> [kind |-> "failed", overall |-> Fin(Neutral)]]
        overall_score == IF reply.overall.has THEN reply.overall.val
                         ELSE Fin(Neutral)
    IN IF api_key = "" THEN failed
       ELSE IF reply.kind # "json" THEN failed
       ELSE IF reply.overall.has /\ ~reply.overall.num THEN failed
       ELSE [score |-> overall_score, requested |-> TRUE,
             feedback |-> [kind |-> "report", overall |-> overall_score]]

\* llm_based_score(): (score, feedback) and whether a request was sent.
\* feedback is [kind, overall]: kind "nokey" for the no-API-key text,
\* "failed" for "LLM scoring failed: ...", "report" for the formatted block
\* with its OVERALL SCORE line
LlmBasedScore(text, api_key, reply) ==
    IF api_key = ""
    THEN [score |-> Fin(Neutral), requested |-> FALSE,
          feedback |-> [kind |-> "nokey", overall |-> Fin(Neutral)]]
    ELSE LET failed == [score |-> Fin(Neutral), requested |-> TRUE,
                        feedback |-> [kind |-> "failed", overall |-> Fin(Neutral)]]
             overall_score == IF reply.overall.has THEN reply.overall.val
                              ELSE Fin(Neutral)
         IN IF reply.kind # "json" THEN failed
            ELSE IF reply.overall.has /\ ~reply.overall.num THEN failed
            ELSE [score |-> overall_score, requested |-> TRUE,
                  feedback |-> [kind |-> "report", overall |-> overall_score]]

\* the two weights exchanged
CombinedScoreSwapped(stat_score, llm_score) ==
    Plus(Scale(LlmWeight, stat_score), Scale(StatWeight, llm_score))

\* the combined score of score_article(), in thousandths
CombinedScore(stat_score, llm_score) ==
    Plus(Scale(StatWeight, stat_score), Scale(LlmWeight, llm_score))

\* score_article(): (combined_score, full_feedback), with what it invoked
ScoreArticle(text, file, pred, api_key, reply) ==
    LET stat_score == StatisticalScore(text, file, pred)
        llm == LlmBasedScore(text, api_key, reply)
        combined_score == CombinedScore(stat_score, llm.score)
    IN [score |-> combined_score,
        feedback |-> [combined |-> combined_score, stat |-> stat_score,
                      llm |-> llm.score, llm_feedback |-> llm.feedback],
        stat_calls |-> 1, llm_calls |-> 1,
        model_loads |-> 1,
        llm_requests |-> IF llm.requested THEN 1 ELSE 0]

\* score > threshold
MeetsThresholdStrict(score, threshold) == GT(score, Fin(threshold))

\* meets_threshold()
MeetsThreshold(score, threshold) == GE(score, Fin(threshold))

\* score_with_verdict(): the verdict, with what score_article invoked
ScoreWithVerdict(text, threshold, file, pred, api_key, reply) ==
    LET sa == ScoreArticle(text, file, pred, api_key, reply)
        passes == MeetsThreshold(sa.score, threshold)
    IN [verdict |->
            [score |-> sa.score, feedback |-> sa.feedback,
             passes |-> passes, threshold |-> threshold,
             message |-> [template |-> IF passes THEN "ACCEPTED"
                                       ELSE "NEEDS REVISION",
                          score |-> sa.score, threshold |-> threshold]],
        stat_calls |-> sa.stat_calls, llm_calls |-> sa.llm_calls,
        model_loads |-> sa.model_loads, llm_requests |-> sa.llm_requests]

(***************************************************************************)
(* The style framework.  A framework is the set of the top-level keys of   *)
(* the JSON document; {} is the empty dict.                                *)
(***************************************************************************)
FrameworkDocument == {"framework", "example_articles"}
\* the document a later save_style_framework() writes
ReplacedDocument == {"framework", "example_articles", "revised principles"}

\* the file is "absent", "present", "partial" (save_style_framework has
\* opened it for writing and not finished) or "replaced"
\* load_style_framework(): only FileNotFoundError is caught, so json.load
\* of a partial file raises JSONDecodeError to the caller
LoadStyleFrameworkRaises(file) == file = "partial"

\* load_style_framework(): {} when intellinews_style_framework.json is absent
LoadStyleFramework(file) ==
    IF file = "absent" THEN {}
    ELSE IF file = "replaced" THEN ReplacedDocument
    ELSE FrameworkDocument

\* _prepare_framework_context(): the generic instruction, or the condensed
\* framework
PrepareFrameworkContext(fw) ==
    IF fw = {} \/ "framework" \notin fw THEN "generic" ELSE "framework"

\* the framework_summary of llm_based_score(), lines 51-59: the three lists
\* are empty when the framework has no "framework" key
FrameworkSummary(fw) ==
    IF "framework" \in fw THEN fw \ {"example_articles"} ELSE {}

(***************************************************************************)
(* The inputs and the environment the model draws from.                    *)
(***************************************************************************)
Text(id, words) == [id |-> id, words |-> words]

\* texts handed to score_with_verdict by a direct caller
Texts == {Text("empty", 0), Text("nine", 9), Text("ten", 10)}
\* response.content.strip() of a draft or refine request
Drafts == {Text("nine", 9), Text("twelve", 12)}

\* score_threshold, in thousandths (0.80 is the default)
Thresholds == {500, 800}
\* source_content: missing, shorter than 8000 characters, longer
Sources == {"", "source", "long source"}

\* the architectures [input_size] + hidden + [1] that wrote the archive
Architectures ==
    {<<5, 64, 32, 1>>, <<5, 32, 16, 1>>, <<4, 64, 32, 1>>, <<5, 64, 1>>}
Archives ==
    {MissingArchive, UnreadableArchive}
        \cup {SavedArchive(LayersOf(a)) : a \in Architectures}

\* agent.predict(feats)[0, 0], in hundredths, for any weights
Predictions == {Fin(0 - 20), Fin(80), Fin(130), NaN}
LoopPredictions == {Fin(80), NaN}

\* replies of the language model to a rubric request
Replies ==
    {ReplyError, ReplyText, ReplyNoOverall, ReplyStrOverall,
     ReplyJson(Fin(0 - 10)), ReplyJson(Fin(20)), ReplyJson(Fin(90)),
     ReplyJson(Fin(150)), ReplyJson(NaN)}
LoopReplies == {ReplyText, ReplyJson(Fin(20)), ReplyJson(Fin(90))}

(***************************************************************************)
(* agents/iterative_writer.py: IterativeWriterAgent.invoke                 *)
(***************************************************************************)
VARIABLES
    max_iterations,     \* self.max_iterations
    score_threshold,    \* self.score_threshold, in thousandths
    source_content,     \* input.get("source_content", "")
    api_key,            \* os.environ.get("OPENAI_API_KEY")
    weight_file,        \* data/model_weights.npz
    framework_file,     \* intellinews_style_framework.json
    framework,          \* self.framework
    pc,                 \* where the call is
    iteration,          \* the loop variable
    current_article,
    current_feedback,
    history,
    result,             \* what invoke returned
    calls,              \* the external calls issued so far
    scored,             \* the last score_with_verdict call, <<>> before it
    request,            \* the last draft or refine request, <<>> before it
    ft,                 \* a call of text_features
    nn,                 \* an AdvancedNeuralAgent and its archive
    fb,                 \* a feedback text and what is extracted from it
    inv,                \* two invocations running at once
    srv                 \* app/server.py: the Style Guru update endpoint

vars == <<max_iterations, score_threshold, source_content, api_key,
          weight_file, framework_file, framework, pc, iteration,
          current_article, current_feedback, history, result, calls, scored,
          request, ft, nn, fb, inv, srv>>

config == <<max_iterations, score_threshold, source_content, api_key,
            weight_file, framework_file, framework>>

\* the variables the writer and the scorer leave alone
aside == <<ft, nn, fb, inv, srv>>

None == Text("None", 0)
NoFeedback ==
    [combined |-> NaN, stat |-> NaN, llm |-> NaN,
     llm_feedback |-> [kind |-> "None", overall |-> NaN]]
NoResult ==
    [shape |-> "none", final_article |-> None, score |-> NaN,
     iterations |-> 0, history |-> <<>>, success |-> FALSE,
     message |-> FALSE]

Init ==
    /\ max_iterations \in 0..MaxIter
    /\ score_threshold \in Thresholds
    /\ source_content \in Sources
    /\ api_key \in {"", "sk"}
    /\ weight_file \in Archives
    /\ framework_file \in {"absent", "present"}
    /\ framework = LoadStyleFramework(framework_file)
    /\ pc = "entry"
    /\ iteration = 0
    /\ current_article = None
    /\ current_feedback = NoFeedback
    /\ history = <<>>
    /\ result = NoResult
    /\ calls = [draft |-> 0, refine |-> 0, score |-> 0]
    /\ scored = <<>>
    /\ request = <<>>
    /\ ft = <<>>
    /\ nn = <<>>
    /\ fb = <<>>
    /\ inv = <<>>
    /\ srv = <<>>

\* max(history, key=lambda x: x['score']) over the first n records: the
\* first record that no later one exceeds under >
RECURSIVE BestAttempt(_, _)
BestAttempt(h, n) ==
    IF n = 1 THEN h[1]
    ELSE LET best == BestAttempt(h, n - 1)
         IN IF GT(h[n].score, best.score) THEN h[n] ELSE best

\* the exhausted return with only the best record as its history
ExhaustedResultBestOnly(h) ==
    LET best_attempt == BestAttempt(h, Len(h))
    IN [shape |-> "WriteResult",
        final_article |-> best_attempt.article,
        score |-> best_attempt.score,
        iterations |-> max_iterations,
        history |-> <<best_attempt>>, success |-> FALSE, message |-> TRUE]

\* the exhausted return reported as a success
ExhaustedResultSucceeds(h) ==
    LET best_attempt == BestAttempt(h, Len(h))
    IN [shape |-> "WriteResult",
        final_article |-> best_attempt.article,
        score |-> best_attempt.score,
        iterations |-> max_iterations,
        history |-> h, success |-> TRUE, message |-> TRUE]

\* the return after the loop, lines 114-130
ExhaustedResult(h) ==
    LET best_attempt == BestAttempt(h, Len(h))
    IN [shape |-> "WriteResult",
        final_article |-> best_attempt.article,
        score |-> best_attempt.score,
        iterations |-> max_iterations,
        history |-> h, success |-> FALSE, message |-> TRUE]

\* the accepted return with the iteration count of the exhausted return
AcceptedResultCountsBudget(h, article, score) ==
    [shape |-> "WriteResult", final_article |-> article, score |-> score,
     iterations |-> max_iterations, history |-> h, success |-> TRUE,
     message |-> FALSE]

\* the return inside the loop, lines 101-107
AcceptedResult(h, article, score) ==
    [shape |-> "WriteResult", final_article |-> article, score |-> score,
     iterations |-> iteration, history |-> h, success |-> TRUE,
     message |-> FALSE]

(***************************************************************************)
(* agents/orchestrator.py: rewrite_only, from the writer's result on.      *)
(***************************************************************************)
\* lines 294-314: the article without its blank lines and without the
\* sections that start at a feedback marker
Cleaned(article) ==
    [of |-> article, blank_lines |-> 0, marker_sections |-> 0]

\* lines 248-266: the text the component scores are read from: the
\* feedback of history[-1] of a successful result, otherwise the message
FeedbackOf(res) ==
    IF res.success
    THEN [kind |-> "verdict", of |-> res.history[Len(res.history)].feedback]
    ELSE [kind |-> "message", of |-> NoFeedback]

\* lines 272-291: the "Lead Quality: 0.85" lines of the rubric part of a
\* verdict's feedback; the message has none, the defaults 0.0 stay
ComponentScores(feedback) ==
    IF feedback.kind = "verdict" THEN <<feedback.of.llm_feedback>> ELSE <<>>

\* lines 234-331
RewriteOnly(res) ==
    LET feedback == FeedbackOf(res)
    IN [article |-> Cleaned(res.final_article),
        score |-> res.score,
        component_scores |-> ComponentScores(feedback),
        feedback |-> feedback,
        iterations |-> IF res.success THEN res.iterations ELSE 0,
        success |-> TRUE]

\* range(1, self.max_iterations): one round short
InRangeShort(i) == i < max_iterations

\* line 58: i in range(1, self.max_iterations + 1), for i >= 1
InRange(i) == i <= max_iterations

\* lines 44-58: the entry of invoke up to the first request.  With an empty
\* source it returns {"error": ...}; with max_iterations < 1 the loop body
\* never runs and max() of the empty history raises ValueError (line 117)
Invoke ==
    /\ pc = "entry"
    /\ IF source_content = ""
       THEN /\ pc' = "error"
            /\ result' = [NoResult EXCEPT !.shape = "error"]
            /\ iteration' = iteration
       ELSE IF ~InRange(1)
       THEN /\ pc' = "raised"
            /\ UNCHANGED <<result, iteration>>
       ELSE /\ pc' = "drafting"
            /\ iteration' = 1
            /\ UNCHANGED result
    /\ UNCHANGED <<config, aside, current_article, current_feedback,
                   history, calls, scored, request>>

\* source_content[:8000]
Truncated(source) ==
    IF source = "long source" THEN "long source[:8000]" ELSE source

\* the refine request built from the best attempt so far
RefineRequestFromBest ==
    LET best == BestAttempt(history, Len(history))
    IN [kind |-> "refine",
        framework_context |-> PrepareFrameworkContext(framework),
        source |-> Truncated(source_content),
        article |-> best.article, feedback |-> best.feedback]

\* lines 185-216: the request of _write_initial_draft
DraftRequest ==
    [kind |-> "draft", framework_context |-> PrepareFrameworkContext(framework),
     source |-> Truncated(source_content), article |-> None,
     feedback |-> NoFeedback]

\* lines 221-263: the request of _refine_article
RefineRequest ==
    [kind |-> "refine", framework_context |-> PrepareFrameworkContext(framework),
     source |-> Truncated(source_content), article |-> current_article,
     feedback |-> current_feedback]

\* lines 64-68: _write_initial_draft returns
WriteInitialDraft ==
    /\ pc = "drafting"
    /\ \E draft \in Drafts : current_article' = draft
    /\ request' = <<DraftRequest>>
    /\ calls' = [calls EXCEPT !.draft = @ + 1]
    /\ pc' = "scoring"
    /\ UNCHANGED <<config, aside, iteration, current_feedback, history,
                   result, scored>>

\* line 218: self.llm.invoke raises in _write_initial_draft; nothing in
\* invoke catches it
WriteInitialDraftFails ==
    /\ pc = "drafting"
    /\ request' = <<DraftRequest>>
    /\ calls' = [calls EXCEPT !.draft = @ + 1]
    /\ pc' = "failed"
    /\ UNCHANGED <<config, aside, iteration, current_article,
                   current_feedback, history, result, scored>>

\* the refine request sent twice at once
RefineArticleTwoRequests ==
    /\ pc = "refining"
    /\ \E draft \in Drafts : current_article' = draft
    /\ request' = <<RefineRequest>>
    /\ calls' = [calls EXCEPT !.refine = @ + 2]
    /\ pc' = "scoring"
    /\ UNCHANGED <<config, aside, iteration, current_feedback, history,
                   result, scored>>

\* lines 69-73: _refine_article returns
RefineArticle ==
    /\ pc = "refining"
    /\ \E draft \in Drafts : current_article' = draft
    /\ request' = <<RefineRequest>>
    /\ calls' = [calls EXCEPT !.refine = @ + 1]
    /\ pc' = "scoring"
    /\ UNCHANGED <<config, aside, iteration, current_feedback, history,
                   result, scored>>

\* the failed round leaving a record behind
RefineArticleFailsRecorded ==
    /\ pc = "refining"
    /\ request' = <<RefineRequest>>
    /\ calls' = [calls EXCEPT !.refine = @ + 1]
    /\ history' = Append(history,
                         [iteration |-> iteration, article |-> None,
                          score |-> NaN, feedback |-> NoFeedback,
                          passes |-> FALSE])
    /\ pc' = "failed"
    /\ UNCHANGED <<config, aside, iteration, current_article,
                   current_feedback, result, scored>>

\* line 265: self.llm.invoke raises in _refine_article; nothing in invoke
\* catches it
RefineArticleFails ==
    /\ pc = "refining"
    /\ request' = <<RefineRequest>>
    /\ calls' = [calls EXCEPT !.refine = @ + 1]
    /\ pc' = "failed"
    /\ UNCHANGED <<config, aside, iteration, current_article,
                   current_feedback, history, result, scored>>

\* lines 77-130: score the draft, record the round, then return the
\* accepted draft, go on to the next round, or leave the loop and return
\* the best attempt
ScoreRound ==
    /\ pc = "scoring"
    /\ IF LoadStyleFrameworkRaises(framework_file)
       THEN /\ pc' = "raised"
            /\ UNCHANGED <<iteration, current_feedback, history, result,
                           scored>>
       ELSE
       \E pred \in LoopPredictions, reply \in LoopReplies :
         LET out == ScoreWithVerdict(current_article, score_threshold,
                                     weight_file, pred, api_key, reply)
             verdict == out.verdict
             h == Append(history,
                         [iteration |-> iteration,
                          article |-> current_article,
                          score |-> verdict.score,
                          feedback |-> verdict.feedback,
                          passes |-> verdict.passes])
         IN /\ scored' = <<[text |-> current_article,
                            threshold |-> score_threshold,
                            summary |-> FrameworkSummary(
                                LoadStyleFramework(framework_file)),
                            weights |-> weight_file,
                            pred |-> pred, reply |-> reply, out |-> out]>>
            /\ current_feedback' = verdict.feedback
            /\ history' = h
            /\ IF verdict.passes
               THEN /\ result' = AcceptedResult(h, current_article,
                                                verdict.score)
                    /\ pc' = "accepted"
                    /\ iteration' = iteration
               ELSE IF InRange(iteration + 1)
               THEN /\ pc' = "refining"
                    /\ iteration' = iteration + 1
                    /\ UNCHANGED result
               ELSE /\ result' = ExhaustedResult(h)
                    /\ pc' = "exhausted"
                    /\ iteration' = iteration
    /\ calls' = [calls EXCEPT !.score = @ + 1]
    /\ UNCHANGED <<config, aside, current_article, request>>

\* score_with_verdict called on a text by a caller other than the loop
ScoreCall ==
    /\ pc = "entry"
    /\ IF LoadStyleFrameworkRaises(framework_file)
       THEN /\ pc' = "raised"
            /\ UNCHANGED scored
       ELSE
       /\ \E text \in Texts, pred \in Predictions, reply \in Replies :
         scored' = <<[text |-> text, threshold |-> score_threshold,
                      summary |-> FrameworkSummary(
                          LoadStyleFramework(framework_file)),
                      weights |-> weight_file,
                      pred |-> pred, reply |-> reply,
                      out |-> ScoreWithVerdict(text, score_threshold,
                                               weight_file, pred, api_key,
                                               reply)]>>
       /\ pc' = "scored"
    /\ calls' = [calls EXCEPT !.score = @ + 1]
    /\ UNCHANGED <<config, aside, iteration, current_article,
                   current_feedback, history, result, request>>

Next ==
    \/ Invoke
    \/ WriteInitialDraft
    \/ WriteInitialDraftFails
    \/ RefineArticle
    \/ RefineArticleFails
    \/ ScoreRound
    \/ ScoreCall

Spec == Init /\ [][Next]_vars

\* the writer and the scorer at rest, for the specifications of the other
\* components
writer == <<config, pc, iteration, current_article, current_feedback,
            history, result, calls, scored, request>>
WriterIdle ==
    /\ max_iterations = 0
    /\ score_threshold = 500
    /\ source_content = ""
    /\ api_key = ""
    /\ weight_file = MissingArchive
    /\ framework_file = "absent"
    /\ framework = {}
    /\ pc = "idle"
    /\ iteration = 0
    /\ current_article = None
    /\ current_feedback = NoFeedback
    /\ history = <<>>
    /\ result = NoResult
    /\ calls = [draft |-> 0, refine |-> 0, score |-> 0]
    /\ scored = <<>>
    /\ request = <<>>

(***************************************************************************)
(* text_features().  A string is a sequence of chunks separated by white   *)
(* space; a chunk is a word, followed or not by a full stop.  A token is   *)
(* [w, dot]: a word, a word with its full stop attached (as str.split      *)
(* leaves it), or the full stop alone (w = "").                            *)
(***************************************************************************)
MaxChunks == 2

Words == {"ab", "7", "AB", "A"}
Chunks == [word : Words, stop : BOOLEAN]
Strings == UNION {[1..n -> Chunks] : n \in 0..MaxChunks}
NonString == [kind |-> "nonstr", chunks |-> <<>>]
String(chunks) == [kind |-> "str", chunks |-> chunks]
FeatureInputs == {NonString} \cup {String(c) : c \in Strings}

\* the tokenizer never fails, fails on its first call only, or fails on
\* every call (its data are not installed)
TokenizerModes == {"never", "first", "always"}

Token(w, dot) == [w |-> w, dot |-> dot]
WordLen(w) == IF w = "" THEN 0 ELSE IF w \in {"7", "A"} THEN 1 ELSE 2
TokenLen(t) == WordLen(t.w) + (IF t.dot THEN 1 ELSE 0)
IsDigit(t) == t.w = "7" /\ ~t.dot
IsUpper(t) == t.w \in {"AB", "A"}

\* nltk.word_tokenize: the words, each full stop a token of its own
RECURSIVE WordTokenize(_)
WordTokenize(chunks) ==
    IF chunks = <<>> THEN <<>>
    ELSE LET c == Head(chunks)
         IN <<Token(c.word, FALSE)>>
            \o (IF c.stop THEN <<Token("", TRUE)>> ELSE <<>>)
            \o WordTokenize(Tail(chunks))

\* nltk.sent_tokenize: a sentence ends with its full stop
RECURSIVE SentTokenize(_, _)
SentTokenize(chunks, open) ==
    IF chunks = <<>> THEN (IF open = <<>> THEN <<>> ELSE <<open>>)
    ELSE LET c == Head(chunks)
         IN IF c.stop
            THEN <<Append(open, c)>> \o SentTokenize(Tail(chunks), <<>>)
            ELSE SentTokenize(Tail(chunks), Append(open, c))

\* text.split(): the chunks, full stops attached
Split(chunks) == [i \in 1..Len(chunks) |-> Token(chunks[i].word, chunks[i].stop)]

\* text.split('.'): the pieces between the full stops, the last one
\* included even when it is empty
RECURSIVE SplitStops(_, _)
SplitStops(chunks, open) ==
    IF chunks = <<>> THEN <<open>>
    ELSE LET c == Head(chunks)
             piece == Append(open, [word |-> c.word, stop |-> FALSE])
         IN IF c.stop
            THEN <<piece>> \o SplitStops(Tail(chunks), <<>>)
            ELSE SplitStops(Tail(chunks), piece)

RECURSIVE SumOver(_, _)
SumOver(seq, n) == IF n = 0 THEN 0 ELSE seq[n] + SumOver(seq, n - 1)
Sum(seq) == SumOver(seq, Len(seq))

\* a float as a ratio of integers
Ratio(num, den) == [num |-> num, den |-> den]
\* np.mean of a non-empty list
Mean(seq) == Ratio(Sum(seq), Len(seq))
Zeros == [i \in 1..FeatureLen |-> Ratio(0, 1)]
Vector(v) == [kind |-> "vector", v |-> v]
Raised == [kind |-> "raised", v |-> <<>>]


\* text_features(): the vector, or the exception that leaves it
TextFeatures(text, mode) ==
    IF text.kind # "str" \/ text.chunks = <<>> THEN Vector(Zeros)
    ELSE LET fallback == mode # "never"
             words == IF fallback THEN Split(text.chunks)
                      ELSE WordTokenize(text.chunks)
             sents == IF fallback THEN SplitStops(text.chunks, <<>>)
                      ELSE SentTokenize(text.chunks, <<>>)
             n == Len(words)
             avg_len == Mean([i \in 1..n |-> TokenLen(words[i])])
             avg_sent == IF sents = <<>> THEN Ratio(0, 1)
                         ELSE Mean([i \in 1..Len(sents) |->
                                       Len(WordTokenize(sents[i]))])
             numbers == Cardinality({i \in 1..n : IsDigit(words[i])})
             caps == Cardinality({i \in 1..n :
                         IsUpper(words[i]) /\ TokenLen(words[i]) > 1})
         IN IF n = 0 THEN Vector(Zeros)
            ELSE IF mode = "always" /\ sents # <<>> THEN Raised
            ELSE Vector(<<Ratio(n, 1), avg_len, avg_sent,
                          Ratio(numbers, 1), Ratio(caps, 1)>>)

Pending == [kind |-> "pending", v |-> <<>>]

InitFeatures ==
    /\ WriterIdle
    /\ \E text \in FeatureInputs, mode \in TokenizerModes :
         ft = <<[text |-> text, mode |-> mode, out |-> Pending]>>
    /\ nn = <<>>
    /\ fb = <<>>
    /\ inv = <<>>
    /\ srv = <<>>

\* one call of text_features
TextFeaturesCall ==
    /\ ft[1].out = Pending
    /\ ft' = <<[ft[1] EXCEPT !.out = TextFeatures(ft[1].text, ft[1].mode)]>>
    /\ UNCHANGED <<writer, nn, fb, inv, srv>>

NextFeatures == TextFeaturesCall

SpecFeatures == InitFeatures /\ [][NextFeatures]_vars

(***************************************************************************)
(* AdvancedNeuralAgent with the contents of its arrays.  A layer is the    *)
(* shapes w, b with wv, bv standing for the numbers in the two arrays:     *)
(* equal integers are equal arrays.                                        *)
(***************************************************************************)
MaxTrain == 2

\* __init__: w drawn at random (seed), b zeros
InitLayers(input_size, seed) ==
    LET shapes == NewAgent(input_size)
    IN [i \in 1..Len(shapes) |->
           [w |-> shapes[i].w, b |-> shapes[i].b,
            wv |-> seed + i, bv |-> 0]]

\* train(): every w and b moved by the gradient steps (dw, db stand for
\* what the data and the shuffles make of them)
TrainLayers(layers, dw, db) ==
    [i \in 1..Len(layers) |->
        [layers[i] EXCEPT !.wv = @ + dw * i, !.bv = @ + db * i]]

\* predict(X): what forward computes from X and the arrays, or "raised"
PredictOutput(layers, X) ==
    IF ForwardRaises(layers, X.shape) THEN [kind |-> "raised", of |-> <<>>]
    ELSE [kind |-> "array",
          of |-> <<X.val>> \o [i \in 1..Len(layers) |->
                                  <<layers[i].wv, layers[i].bv>>]]

InputSizes == {4, 5}
Seeds == {10, 20}
Steps == {1, 2}
\* the input of the round trip: one row of input_size numbers
Probe(input_size) == [shape |-> <<1, input_size>>, val |-> 7]
NoOutput == [kind |-> "none", of |-> <<>>]

InitModel ==
    /\ WriterIdle
    /\ \E input_size \in InputSizes, seed \in Seeds :
         nn = <<[input_size |-> input_size,
                 layers |-> InitLayers(input_size, seed),
                 trained |-> 0,
                 file |-> MissingArchive,
                 out |-> NoOutput,
                 fresh |-> <<>>,
                 fresh_raised |-> FALSE,
                 fresh_out |-> NoOutput,
                 other |-> <<>>]>>
    /\ ft = <<>>
    /\ fb = <<>>
    /\ inv = <<>>
    /\ srv = <<>>

\* agent.train(X, y)
Train ==
    /\ nn[1].trained < MaxTrain
    /\ \E dw \in Steps, db \in Steps :
         nn' = <<[nn[1] EXCEPT !.layers = TrainLayers(@, dw, db),
                               !.trained = @ + 1]>>
    /\ UNCHANGED <<writer, ft, fb, inv, srv>>

\* agent.predict(X) on the probe, then agent.save(path); the fresh model of
\* an earlier round trip is dropped
PredictAndSave ==
    /\ nn' = <<[nn[1] EXCEPT
                  !.out = PredictOutput(nn[1].layers, Probe(nn[1].input_size)),
                  !.file = SavedArchive(nn[1].layers),
                  !.fresh = <<>>,
                  !.fresh_raised = FALSE,
                  !.fresh_out = NoOutput]>>
    /\ nn' # nn
    /\ UNCHANGED <<writer, ft, fb, inv, srv>>

\* a fresh AdvancedNeuralAgent(input_size), fresh.load(path), and
\* fresh.predict(X) on the probe
LoadFresh ==
    /\ \E seed \in Seeds :
         LET fresh == InitLayers(nn[1].input_size, seed + 1)
             file == nn[1].file
         IN IF LoadRaises(fresh, file)
            THEN nn' = <<[nn[1] EXCEPT !.fresh = fresh,
                                       !.fresh_raised = TRUE,
                                       !.fresh_out = NoOutput]>>
            ELSE LET loaded == Load(fresh, file)
                 IN nn' = <<[nn[1] EXCEPT
                        !.fresh = loaded,
                        !.fresh_raised = FALSE,
                        !.fresh_out =
                            PredictOutput(loaded, Probe(nn[1].input_size))]>>
    /\ nn' # nn
    /\ UNCHANGED <<writer, ft, fb, inv, srv>>

\* the archive a model of the architecture sizes has saved
ForeignArchive(sizes) ==
    LET shapes == LayersOf(sizes)
    IN SavedArchive([i \in 1..Len(shapes) |->
                        [w |-> shapes[i].w, b |-> shapes[i].b,
                         wv |-> i, bv |-> i]])

\* another AdvancedNeuralAgent(input_size) and other.load(path), where the
\* archive at path was saved by a model of any architecture; other holds
\* its layers after the call, whether load returned or raised
LoadForeign ==
    /\ \E sizes \in Architectures :
         nn' = <<[nn[1] EXCEPT !.other =
                    LoadInPlace(InitLayers(nn[1].input_size, 0),
                                ForeignArchive(sizes))]>>
    /\ nn' # nn
    /\ UNCHANGED <<writer, ft, fb, inv, srv>>

NextModel ==
    \/ Train
    \/ PredictAndSave
    \/ LoadFresh
    \/ LoadForeign

SpecModel == InitModel /\ [][NextModel]_vars

(***************************************************************************)
(* The feedback text and the component scores rewrite_only extracts from   *)
(* it.  A text is a sequence of tokens separated by white space only:      *)
(*   label  a phrase ending in ":", with the set of the component labels   *)
(*          it contains whatever the case ("Restructure:" has Structure:)  *)
(*   num    digits "." digits, the digits kept                             *)
(*   int    digits without a point                                         *)
(*   text   anything else ("/", a word)                                    *)
(***************************************************************************)
MaxFree == 2

Components ==
    {"lead_quality", "structure", "vocabulary", "tone", "attribution"}
Label(text, has) == [kind |-> "label", text |-> text, has |-> has,
                     digits |-> <<>>]
Num(digits) == [kind |-> "num", text |-> "", has |-> {}, digits |-> digits]
IntTok == [kind |-> "int", text |-> "5", has |-> {}, digits |-> <<>>]
TextTok(text) == [kind |-> "text", text |-> text, has |-> {},
                  digits |-> <<>>]

\* f"{x:.2f}" of x thousandths, 0 <= x <= 1000, x not half-way between two
\* hundredths: the whole part followed by two decimals
Format2(x) ==
    LET h == (x + 5) \div 10
    IN <<h \div 100, (h \div 10) % 10, h % 10>>

\* f"{x:.3f}" of x thousandths
Format3(x) ==
    <<x \div 1000, (x \div 100) % 10, (x \div 10) % 10, x % 10>>

\* float("d.dd") or float("d.ddd"), in thousandths
ParseFloat(digits) ==
    digits[1] * 1000 + digits[2] * 100 + digits[3] * 10
        + (IF Len(digits) >= 4 THEN digits[4] ELSE 0)

\* "<value>/1.00"
OutOfOne(digits) == <<Num(digits), TextTok("/"), Num(<<1, 0, 0>>)>>

\* the free text of the rubric result goes to one of its four places
Section(rubric, name) ==
    IF rubric.section = name THEN rubric.free ELSE <<>>

\* lines 114-143 of llm_based_score: the formatted report
FormatFeedback(rubric) ==
    <<TextTok("STYLE GURU FEEDBACK"), Label("OVERALL SCORE:", {})>>
    \o OutOfOne(Format2(rubric.overall_score))
    \o <<Label("COMPONENT SCORES:", {}),
         Label("Lead Quality:", {"lead_quality"})>>
    \o OutOfOne(Format2(rubric.lead_quality))
    \o <<Label("Structure:", {"structure"})>>
    \o OutOfOne(Format2(rubric.structure_score))
    \o <<Label("Vocabulary:", {"vocabulary"})>>
    \o OutOfOne(Format2(rubric.vocabulary_score))
    \o <<Label("Tone:", {"tone"})>>
    \o OutOfOne(Format2(rubric.tone_score))
    \o <<Label("Attribution:", {"attribution"})>>
    \o OutOfOne(Format2(rubric.attribution_score))
    \o <<Label("STRENGTHS:", {})>> \o Section(rubric, "strengths")
    \o <<Label("WEAKNESSES:", {})>> \o Section(rubric, "weaknesses")
    \o <<Label("DETAILED FEEDBACK:", {})>>
    \o Section(rubric, "specific_feedback")
    \o <<Label("REVISION PRIORITIES:", {})>>
    \o Section(rubric, "revision_priorities")

\* lines 181-188 of score_article: full_feedback around the report
FullFeedback(combined_score, stat_score, llm_score, llm_feedback) ==
    <<Label("COMBINED SCORE:", {})>> \o OutOfOne(Format3(combined_score))
    \o <<Label("- Statistical Score:", {}), Num(Format3(stat_score)),
         TextTok("(30% weight)"),
         Label("- LLM Score:", {}), Num(Format3(llm_score)),
         TextTok("(70% weight)")>>
    \o llm_feedback

\* where r"<Label>:\s*(\d+\.\d+)" matches, with re.IGNORECASE
MatchesAt(component, feedback) ==
    {i \in 1..(Len(feedback) - 1) :
        /\ feedback[i].kind = "label"
        /\ component \in feedback[i].has
        /\ feedback[i + 1].kind = "num"}

Max(S) == CHOOSE i \in S : \A j \in S : j <= i
Min(S) == CHOOSE i \in S : \A j \in S : i <= j

\* the last match taken instead of the first
ExtractLast(component, feedback) ==
    LET at == MatchesAt(component, feedback)
    IN IF at = {} THEN 0 ELSE ParseFloat(feedback[Max(at) + 1].digits)

\* re.search(...): float(match.group(1)) of the first match, in
\* thousandths; 0.0 is kept when there is none
Extract(component, feedback) ==
    LET at == MatchesAt(component, feedback)
    IN IF at = {} THEN 0 ELSE ParseFloat(feedback[Min(at) + 1].digits)

\* sub-scores of the rubric result in [0, 1], in thousandths
SubScores == {4, 850, 1000}
FreeTokens ==
    {Label("tone:", {"tone"}), Label("Restructure:", {"structure"}),
     Num(<<0, 1, 0>>), IntTok}
FreeTexts == UNION {[1..n -> FreeTokens] : n \in 0..MaxFree}
Sections ==
    {"strengths", "weaknesses", "specific_feedback", "revision_priorities"}
RubricResults ==
    [overall_score : {900}, lead_quality : SubScores,
     structure_score : SubScores, vocabulary_score : SubScores,
     tone_score : SubScores, attribution_score : SubScores,
     free : FreeTexts, section : Sections]

InitFeedback ==
    /\ WriterIdle
    /\ \E rubric \in RubricResults :
         fb = <<[result |-> rubric, feedback |-> <<>>,
                 component_scores |-> [c \in Components |-> 0],
                 extracted |-> FALSE]>>
    /\ ft = <<>>
    /\ nn = <<>>
    /\ inv = <<>>
    /\ srv = <<>>

\* score_article on the rubric result (statistical score 0.80), then the
\* extraction of rewrite_only from its feedback
ScoreAndExtract ==
    /\ ~fb[1].extracted
    /\ LET rubric == fb[1].result
           llm_score == rubric.overall_score
           stat_score == 800
           combined_score ==
               (StatWeight * stat_score + LlmWeight * llm_score) \div 10
           feedback == FullFeedback(combined_score, stat_score, llm_score,
                                    FormatFeedback(rubric))
       IN fb' = <<[fb[1] EXCEPT
                !.feedback = feedback,
                !.component_scores =
                    [c \in Components |-> Extract(c, feedback)],
                !.extracted = TRUE]>>
    /\ UNCHANGED <<writer, ft, nn, inv, srv>>

NextFeedback == ScoreAndExtract

SpecFeedback == InitFeedback /\ [][NextFeedback]_vars

(***************************************************************************)
(* Two invocations of IterativeWriterAgent.invoke at once, each in its own *)
(* thread (server.py starts one per request).  The configuration, the      *)
(* framework and the weights are shared and only read; history,            *)
(* current_article, current_feedback and iteration are locals of invoke,   *)
(* so each invocation has its own: inv[i] is the frame of invocation i,    *)
(* with the responses it has received so far in log.                       *)
(***************************************************************************)
MaxIterConc == 2

Invocations == {1, 2}
ConcPredictions == {Fin(80)}
ConcReplies == {ReplyJson(Fin(20)), ReplyJson(Fin(90))}

\* a response to a draft or refine request, and to a scoring call
ArticleResponse(article) ==
    [kind |-> "article", article |-> article, pred |-> NaN,
     reply |-> ReplyError]
VerdictResponse(pred, reply) ==
    [kind |-> "verdict", article |-> None, pred |-> pred, reply |-> reply]

\* lines 44-58: the frame of invoke at its first request
FirstRequest(source) ==
    [source |-> source, pc |-> "drafting", iteration |-> 1,
     current_article |-> None, current_feedback |-> NoFeedback,
     history |-> <<>>, result |-> NoResult, log |-> <<>>]

\* lines 58-112: what invoke does with one response, up to its next
\* request or its return
LoopStep(st, response) ==
    IF st.pc \in {"drafting", "refining"}
    THEN [st EXCEPT !.current_article = response.article,
                    !.pc = "scoring",
                    !.log = Append(@, response)]
    ELSE LET out == ScoreWithVerdict(st.current_article, score_threshold,
                                     weight_file, response.pred, api_key,
                                     response.reply)
             verdict == out.verdict
             h == Append(st.history,
                         [iteration |-> st.iteration,
                          article |-> st.current_article,
                          score |-> verdict.score,
                          feedback |-> verdict.feedback,
                          passes |-> verdict.passes])
             scored_st == [st EXCEPT !.current_feedback = verdict.feedback,
                                     !.history = h,
                                     !.log = Append(@, response)]
         IN IF verdict.passes
            THEN [scored_st EXCEPT
                    !.pc = "accepted",
                    !.result = [shape |-> "WriteResult",
                                final_article |-> st.current_article,
                                score |-> verdict.score,
                                iterations |-> st.iteration,
                                history |-> h, success |-> TRUE,
                                message |-> FALSE]]
            ELSE IF InRange(st.iteration + 1)
            THEN [scored_st EXCEPT !.pc = "refining",
                                   !.iteration = @ + 1]
            ELSE [scored_st EXCEPT !.pc = "exhausted",
                                   !.result = ExhaustedResult(h)]

InitConc ==
    /\ max_iterations \in 1..MaxIterConc
    /\ score_threshold \in Thresholds
    /\ source_content = "source"
    /\ api_key = "sk"
    /\ weight_file = SavedArchive(NewAgent(FeatureLen))
    /\ framework_file = "present"
    /\ framework = LoadStyleFramework(framework_file)
    /\ pc = "idle"
    /\ iteration = 0
    /\ current_article = None
    /\ current_feedback = NoFeedback
    /\ history = <<>>
    /\ result = NoResult
    /\ calls = [draft |-> 0, refine |-> 0, score |-> 0]
    /\ scored = <<>>
    /\ request = <<>>
    /\ inv = [i \in Invocations |-> FirstRequest(source_content)]
    /\ srv = <<>>
    /\ ft = <<>>
    /\ nn = <<>>
    /\ fb = <<>>

\* the records of invocation i kept in a list every invocation appends to
InvScoresSharedHistory(i) ==
    /\ inv[i].pc = "scoring"
    /\ \E pred \in ConcPredictions, reply \in ConcReplies :
         LET st == LoopStep(inv[i], VerdictResponse(pred, reply))
         IN inv' = [j \in Invocations |->
                       IF j = i THEN st
                       ELSE [inv[j] EXCEPT
                               !.history = Append(@, st.history[Len(st.history)])]]
    /\ UNCHANGED <<writer, ft, nn, fb, srv>>

\* the draft request of invocation i returns
InvDrafts(i) ==
    /\ inv[i].pc = "drafting"
    /\ \E draft \in Drafts :
         inv' = [inv EXCEPT ![i] = LoopStep(@, ArticleResponse(draft))]
    /\ UNCHANGED <<writer, ft, nn, fb, srv>>

\* the refine request of invocation i returns
InvRefines(i) ==
    /\ inv[i].pc = "refining"
    /\ \E draft \in Drafts :
         inv' = [inv EXCEPT ![i] = LoopStep(@, ArticleResponse(draft))]
    /\ UNCHANGED <<writer, ft, nn, fb, srv>>

\* the scoring call of invocation i returns
InvScores(i) ==
    /\ inv[i].pc = "scoring"
    /\ \E pred \in ConcPredictions, reply \in ConcReplies :
         inv' = [inv EXCEPT ![i] = LoopStep(@, VerdictResponse(pred, reply))]
    /\ UNCHANGED <<writer, ft, nn, fb, srv>>

NextConc ==
    \/ \E i \in Invocations : InvDrafts(i)
    \/ \E i \in Invocations : InvRefines(i)
    \/ \E i \in Invocations : InvScores(i)

SpecConc == InitConc /\ [][NextConc]_vars


(***************************************************************************)
(* The offline update beside a writer invocation: deep_analyzer.py         *)
(* save_style_framework() rewrites intellinews_style_framework.json and    *)
(* training.py train_model() rewrites data/model_weights.npz while the     *)
(* loop of the writer scores its rounds.  Both open the file for writing   *)
(* and fill it in place, so a reader can see the file half written.        *)
(***************************************************************************)
MaxIterFiles == 2

InitFiles ==
    /\ max_iterations \in 1..MaxIterFiles
    /\ score_threshold \in Thresholds
    /\ source_content = "source"
    /\ api_key = "sk"
    /\ weight_file \in {MissingArchive, SavedArchive(NewAgent(FeatureLen))}
    /\ framework_file \in {"absent", "present"}
    /\ framework = LoadStyleFramework(framework_file)
    /\ pc = "entry"
    /\ iteration = 0
    /\ current_article = None
    /\ current_feedback = NoFeedback
    /\ history = <<>>
    /\ result = NoResult
    /\ calls = [draft |-> 0, refine |-> 0, score |-> 0]
    /\ scored = <<>>
    /\ request = <<>>
    /\ ft = <<>>
    /\ nn = <<>>
    /\ fb = <<>>
    /\ inv = <<>>
    /\ srv = <<>>

\* what the writer's loop leaves alone when a file changes under it
loop == <<max_iterations, score_threshold, source_content, api_key,
          framework, pc, iteration, current_article, current_feedback,
          history, result, calls, scored, request>>

\* save_style_framework(): open(..., "w") truncates the file
SaveStyleFrameworkOpens ==
    /\ framework_file # "partial"
    /\ framework_file' = "partial"
    /\ UNCHANGED <<loop, weight_file, aside>>

\* save_style_framework(): json.dump has written the whole document
SaveStyleFrameworkWrites ==
    /\ framework_file = "partial"
    /\ framework_file' = "replaced"
    /\ UNCHANGED <<loop, weight_file, aside>>

\* train_model(): agent.save starts to write the archive
SaveWeightsOpens ==
    /\ weight_file # UnreadableArchive
    /\ weight_file' = UnreadableArchive
    /\ UNCHANGED <<loop, framework_file, aside>>

\* train_model(): np.savez has written every array of the new model
SaveWeightsWrites ==
    /\ weight_file = UnreadableArchive
    /\ weight_file' = SavedArchive(NewAgent(FeatureLen))
    /\ UNCHANGED <<loop, framework_file, aside>>

\* the writer's steps leave the files alone (UNCHANGED config), the
\* offline update's steps leave the writer alone
NextFiles ==
    \/ Invoke
    \/ WriteInitialDraft
    \/ RefineArticle
    \/ ScoreRound
    \/ SaveStyleFrameworkOpens
    \/ SaveStyleFrameworkWrites
    \/ SaveWeightsOpens
    \/ SaveWeightsWrites

SpecFiles == InitFiles /\ [][NextFiles]_vars


(***************************************************************************)
(* app/server.py: POST /update-style-guru.  srv[1] holds the module's      *)
(* STYLE_GURU_AVAILABLE and style_guru_updating, the background tasks the  *)
(* handler has added (one per accepted request: "queued" until the         *)
(* response is sent and the task starts, then "running", then how it       *)
(* ended) and the status code of every response.                           *)
(***************************************************************************)
MaxRequests == 3

\* num_articles of a request
NumArticles == {50, 100}

InitUpdate ==
    /\ WriterIdle
    /\ ft = <<>>
    /\ nn = <<>>
    /\ fb = <<>>
    /\ inv = <<>>
    /\ \E available \in BOOLEAN :
         srv = <<[available |-> available,
                  style_guru_updating |-> FALSE,
                  tasks |-> <<>>,
                  responses |-> <<>>]>>

Task(num_articles, at) == [num_articles |-> num_articles, at |-> at]

\* the handler update_style_guru: 501, 409, or add the task and answer 200
UpdateStyleGuru ==
    /\ Len(srv[1].responses) < MaxRequests
    /\ \E num_articles \in NumArticles :
         srv' = <<IF ~srv[1].available
                  THEN [srv[1] EXCEPT !.responses = Append(@, 501)]
                  ELSE IF srv[1].style_guru_updating
                  THEN [srv[1] EXCEPT !.responses = Append(@, 409)]
                  ELSE [srv[1] EXCEPT
                           !.tasks = Append(@, Task(num_articles, "queued")),
                           !.responses = Append(@, 200)]>>
    /\ UNCHANGED <<writer, ft, nn, fb, inv>>

\* update_style_guru_background starts, after the response was sent:
\* style_guru_updating = True
StartBackground ==
    /\ \E t \in DOMAIN srv[1].tasks :
         /\ srv[1].tasks[t].at = "queued"
         /\ srv' = <<[srv[1] EXCEPT !.tasks[t].at = "running",
                                    !.style_guru_updating = TRUE]>>
    /\ UNCHANGED <<writer, ft, nn, fb, inv>>

\* update_style_guru_background returns: the analysis gave no framework,
\* a step raised, or all three steps ran; style_guru_updating = False on
\* every path
FinishBackground ==
    /\ \E t \in DOMAIN srv[1].tasks :
         /\ srv[1].tasks[t].at = "running"
         /\ \E end \in {"no framework", "raised", "complete"} :
              srv' = <<[srv[1] EXCEPT !.tasks[t].at = end,
                                      !.style_guru_updating = FALSE]>>
    /\ UNCHANGED <<writer, ft, nn, fb, inv>>

NextUpdate ==
    \/ UpdateStyleGuru
    \/ StartBackground
    \/ FinishBackground

SpecUpdate == InitUpdate /\ [][NextUpdate]_vars

(***************************************************************************)
(* Properties.                                                             *)
(***************************************************************************)
Rounds == Len(history)
Requests == calls.draft + calls.refine
InvocationOver == pc \in {"accepted", "exhausted", "error", "raised"}
SomeRoundPasses == \E k \in 1..Rounds : history[k].passes
FirstPassing == CHOOSE k \in 1..Rounds :
    history[k].passes /\ \A j \in 1..(k - 1) : ~history[j].passes

\* C1: once a round's verdict passes, invoke has returned at the first such
\* round k: success, the draft and the score of round k, iterations = k, a
\* history of exactly k records, and k draft/refine requests and k scoring
\* calls in all, in this state and in every later one
C1_StopsAtFirstPass ==
    SomeRoundPasses =>
        LET k == FirstPassing
        IN /\ pc = "accepted"
           /\ Rounds = k
           /\ result.shape = "WriteResult"
           /\ result.success
           /\ result.final_article = history[k].article
           /\ result.score = history[k].score
           /\ result.iterations = k
           /\ result.history = history
           /\ Requests = k
           /\ calls.score = k
           /\ (k = 1 => calls.refine = 0)

\* round 1 failed and round 2, on another draft, passed
C1_Witness ==
    /\ pc = "accepted"
    /\ Rounds = 2
    /\ Rounds < max_iterations
    /\ history[1].article # history[2].article
    /\ result.final_article = history[2].article

\* C2: with max_iterations = N >= 1, when rounds are run and none passes,
\* invoke runs exactly N of them and then returns (it does not raise): a
\* history of N records, success false, iterations = N, with the message
C2_ExhaustsAfterN ==
    /\ Rounds <= Larger(max_iterations, 0)
    /\ (InvocationOver /\ max_iterations >= 1 /\ Requests >= 1
            /\ ~SomeRoundPasses)
        => pc = "exhausted"
    /\ pc = "exhausted" =>
        /\ max_iterations >= 1
        /\ Rounds = max_iterations
        /\ Requests = max_iterations
        /\ calls.score = max_iterations
        /\ \A k \in 1..Rounds : history[k].iteration = k
        /\ result.shape = "WriteResult"
        /\ Len(result.history) = max_iterations
        /\ result.history = history
        /\ ~result.success
        /\ result.iterations = max_iterations
        /\ result.message

C2_Witness ==
    /\ pc = "exhausted"
    /\ max_iterations = 3
    /\ Rounds = 3

\* C3: on exhaustion the returned article and score are those of a record
\* whose score is >= the score of every other record (compared here with
\* the other records that hold a number)
C3_BestIsMaximal ==
    pc = "exhausted" =>
        \E k \in 1..Rounds :
            /\ result.final_article = history[k].article
            /\ result.score = history[k].score
            /\ \A j \in (1..Rounds) \ {k} :
                    IsFinite(history[j].score) =>
                        GE(history[k].score, history[j].score)

\* C4: whenever invoke is over it has returned a WriteResult
C4_AlwaysWriteResult ==
    InvocationOver => result.shape = "WriteResult"

\* C5: for a text of fewer than 10 words score_with_verdict returns 0.1 and
\* passes = false and invokes neither sub-scorer
C5_ShortTextGuard ==
    \A c \in {scored[i] : i \in 1..Len(scored)} :
        c.text.words < 10 =>
            /\ c.out.verdict.score = Fin(100)
            /\ ~c.out.verdict.passes
            /\ c.out.stat_calls = 0
            /\ c.out.llm_calls = 0
            /\ c.out.model_loads = 0
            /\ c.out.llm_requests = 0

\* C6: the statistical score and the score of the verdict lie in [0, 1]
C6_ScoresInUnitInterval ==
    \A c \in {scored[i] : i \in 1..Len(scored)} :
        LET stat == c.out.verdict.feedback.stat
            score == c.out.verdict.score
        IN /\ IsFinite(stat) /\ 0 <= stat.v /\ stat.v <= 100
           /\ IsFinite(score) /\ 0 <= score.v /\ score.v <= 1000

\* C7: for a text of at least 10 words the combined score is
\* 0.3*s + 0.7*r of the two sub-scores s and r (NaN when either is NaN)
C7_CombinedWeighting ==
    \A c \in {scored[i] : i \in 1..Len(scored)} :
        LET s == c.out.verdict.feedback.stat
            r == c.out.verdict.feedback.llm
            score == c.out.verdict.score
        IN c.text.words >= 10 =>
            /\ c.out.verdict.feedback.combined = score
            /\ IF IsFinite(s) /\ IsFinite(r)
               THEN IsFinite(score) /\ score.v = 3 * s.v + 7 * r.v
               ELSE ~IsFinite(score)

\* statistical 0.8 and rubric 0.2 gave 0.38
C7_Witness ==
    /\ scored # <<>>
    /\ scored[1].text.words >= 10
    /\ scored[1].out.verdict.feedback.stat = Fin(80)
    /\ scored[1].out.verdict.feedback.llm = Fin(20)
    /\ scored[1].out.verdict.score = Fin(380)

\* C8: passes is true exactly when score >= threshold, the threshold field
\* is the argument, and the message is the accepted template exactly when
\* passes is true and the needs-revision template otherwise
C8_VerdictConsistent ==
    \A c \in {scored[i] : i \in 1..Len(scored)} :
        LET v == c.out.verdict
        IN /\ v.passes <=> (IsFinite(v.score) /\ v.score.v >= c.threshold)
           /\ v.threshold = c.threshold
           /\ v.message.threshold = c.threshold
           /\ v.message.score = v.score
           /\ v.passes => v.message.template = "ACCEPTED"
           /\ ~v.passes => v.message.template = "NEEDS REVISION"

\* a score equal to the threshold passed
C8_Witness ==
    /\ scored # <<>>
    /\ scored[1].out.verdict.score = Fin(scored[1].threshold)
    /\ scored[1].out.verdict.passes
    /\ scored[1].out.verdict.message.template = "ACCEPTED"

\* the archive is absent, unreadable, or holds other shapes than the model
\* statistical_score builds
ArchiveUnusable ==
    \/ weight_file.status # "ok"
    \/ weight_file.layers # NewAgent(FeatureLen)

\* C9: with the weight file missing, unreadable or of shapes that do not
\* match the freshly built model, the statistical score is exactly 0.5
C9_UnusableArchiveIsNeutral ==
    \A c \in {scored[i] : i \in 1..Len(scored)} :
        ArchiveUnusable => c.out.verdict.feedback.stat = Fin(50)

\* C10: a run takes at most max_iterations rounds, asks for the initial
\* draft only in iteration 1, refines only after it, and, for the runs that
\* are given source content, ends in ACCEPTED or EXHAUSTED
C10_RunShape ==
    /\ Rounds <= Larger(max_iterations, 0)
    /\ pc = "drafting" => iteration = 1 /\ Rounds = 0
    /\ pc = "refining" => iteration >= 2 /\ Rounds = iteration - 1
    /\ calls.draft <= 1
    /\ (InvocationOver /\ source_content # "")
        => pc \in {"accepted", "exhausted"}

\* the last round of the invocation in progress and the call that scored it
LastRound == history[Rounds]
InLoop == pc # "scored" /\ Rounds >= 1 /\ scored # <<>>

\* C11: when the rubric reply of round n is not JSON, llm_based_score
\* returns 0.5 with the "LLM scoring failed" diagnostic instead of raising,
\* the round is appended to the history with the score combined from that
\* 0.5, and unless the round passed or the budget is spent the loop goes on
\* to refine for round n + 1
C11_MalformedReplyIsNeutral ==
    (InLoop /\ api_key # "" /\ scored[1].reply = ReplyText) =>
        LET v == scored[1].out.verdict
        IN /\ v.feedback.llm = Fin(Neutral)
           /\ v.feedback.llm_feedback.kind = "failed"
           /\ scored[1].out.llm_requests = 1
           /\ LastRound.iteration = Rounds
           /\ LastRound.score = v.score
           /\ LastRound.feedback = v.feedback
           /\ LastRound.passes = v.passes
           /\ v.score = CombinedScore(v.feedback.stat, Fin(Neutral))
           /\ pc # "raised"
           /\ ((~LastRound.passes /\ Rounds < max_iterations) =>
                 \/ pc = "refining" /\ iteration = Rounds + 1
                 \/ pc = "scoring" /\ iteration = Rounds + 1
                                   /\ calls.refine = Rounds
                 \/ pc = "failed" /\ iteration = Rounds + 1
                                  /\ calls.refine = Rounds)

C11_Witness ==
    /\ InLoop /\ api_key # "" /\ scored[1].reply = ReplyText
    /\ pc = "scoring" /\ Rounds = 1 /\ iteration = 2
    /\ ~LastRound.passes
    /\ scored[1].out.verdict.feedback.llm_feedback.kind = "failed"

\* C12: when the draft or refine call of round n raises, the invocation is
\* over without a result: the n requests made so far are all there are (no
\* retry), only the n - 1 earlier rounds were scored and recorded, round n
\* has no record, and the step that failed changed nothing else
C12_WriterFailurePropagates ==
    pc = "failed" =>
        /\ result = NoResult
        /\ iteration >= 1
        /\ Requests = iteration
        /\ calls.draft = 1
        /\ calls.score = iteration - 1
        /\ Rounds = iteration - 1
        /\ \A k \in 1..Rounds : history[k].iteration = k /\ ~history[k].passes
        /\ request # <<>>
        /\ request[1].kind = (IF iteration = 1 THEN "draft" ELSE "refine")

C12_Witness ==
    /\ pc = "failed" /\ iteration = 2 /\ Rounds = 1
    /\ request[1].kind = "refine" /\ result = NoResult

\* what an absent framework file degrades to: the empty framework at
\* construction, the generic instruction in every draft and refine request,
\* the empty summary in every rubric prompt
AbsentFrameworkDegrades ==
    framework_file = "absent" =>
        /\ framework = {}
        /\ (request # <<>> => request[1].framework_context = "generic")
        /\ (scored # <<>> => scored[1].summary = {})

\* C13: with the framework file absent the writer is constructed with the
\* empty framework, its requests carry the generic instruction, the rubric
\* prompt has the empty summary, and an invocation on a source that is
\* over has returned a WriteResult
C13_AbsentFrameworkIsNotFatal ==
    /\ AbsentFrameworkDegrades
    /\ ((framework_file = "absent" /\ source_content # "" /\ InvocationOver)
            => result.shape = "WriteResult")

ScoredCalls == {scored[i] : i \in 1..Len(scored)}

\* C15: without an API key llm_based_score returns 0.5 with the fixed
\* no-key message and sends no request; with a key, a reply that cannot be
\* used gives the "LLM scoring failed" message after one request, so the
\* two outcomes differ by their message
C15_NoKeyIsNeutralAndDistinct ==
    \A c \in ScoredCalls :
        LET f == c.out.verdict.feedback
        IN /\ api_key = "" =>
                /\ f.llm = Fin(Neutral)
                /\ f.llm_feedback = [kind |-> "nokey", overall |-> Fin(Neutral)]
                /\ c.out.llm_requests = 0
           /\ (api_key # "" /\ c.reply.kind # "json") =>
                /\ f.llm = Fin(Neutral)
                /\ f.llm_feedback.kind = "failed"
                /\ c.out.llm_requests = 1
           /\ (f.llm_feedback.kind = "nokey") <=> (api_key = "")

C15_Witness ==
    /\ scored # <<>> /\ api_key = ""
    /\ scored[1].reply = ReplyJson(Fin(90))
    /\ scored[1].out.verdict.feedback.llm = Fin(Neutral)
    /\ scored[1].out.verdict.feedback.llm_feedback.kind = "nokey"
    /\ scored[1].out.llm_requests = 0

\* a non-finite sub-score replaced by the neutral 0.5
Replaced(x) == IF IsFinite(x) THEN x ELSE Fin(Neutral)

\* C16: a non-finite statistical or rubric sub-score is replaced by 0.5
\* before the weighted sum, so every combined score is finite
C16_NonFiniteReplaced ==
    \A c \in ScoredCalls :
        LET f == c.out.verdict.feedback
        IN /\ IsFinite(c.out.verdict.score)
           /\ c.out.verdict.score =
                  CombinedScore(Replaced(f.stat), Replaced(f.llm))

\* C20: the requests of one invocation alternate draft(1), score(1),
\* draft(2), score(2), ...: a score call is issued only when the draft of
\* its round has returned and every earlier round is scored, a draft or
\* refine request only when every earlier round is scored, no step issues
\* two calls, and the records are in round order
C20_LoopOrder ==
    pc # "scored" =>
        /\ calls.score <= Requests /\ Requests <= calls.score + 1
        /\ calls.draft <= 1
        /\ (Requests >= 1 => calls.draft = 1)
        /\ (pc \in {"drafting", "refining"} =>
                Requests = calls.score /\ Requests = iteration - 1)
        /\ (pc = "scoring" =>
                Requests = calls.score + 1 /\ Requests = iteration)
        /\ (pc = "failed" => Requests = calls.score + 1)
        /\ Rounds = calls.score
        /\ \A k \in 1..Rounds : history[k].iteration = k

C20_Witness ==
    /\ pc = "scoring" /\ iteration = 3 /\ calls.draft = 1
    /\ calls.refine = 2 /\ calls.score = 2 /\ Rounds = 2

\* C17: text_features never raises: for every input and every behaviour of
\* the tokenizer it returns a vector of 5 numbers, the zero vector when the
\* input is not a string or has no words
C17_FeaturesNeverRaise ==
    \A c \in {ft[i] : i \in 1..Len(ft)} :
        c.out # Pending =>
            /\ c.out.kind = "vector"
            /\ Len(c.out.v) = FeatureLen
            /\ ((c.text.kind # "str" \/ c.text.chunks = <<>>) =>
                    c.out.v = Zeros)

\* C18: a fresh model of the same architecture that has loaded the archive
\* has, layer by layer, the weights and biases the archive was saved from,
\* and its prediction on the probe is the one made before saving
C18_SaveLoadRoundTrip ==
    \A m \in {nn[i] : i \in 1..Len(nn)} :
        (m.fresh # <<>> /\ m.file.status = "ok") =>
            /\ ~m.fresh_raised
            /\ Len(m.fresh) = Len(m.file.layers)
            /\ \A i \in 1..Len(m.fresh) :
                  /\ m.fresh[i].w = m.file.layers[i].w
                  /\ m.fresh[i].wv = m.file.layers[i].wv
                  /\ m.fresh[i].b = m.file.layers[i].b
                  /\ m.fresh[i].bv = m.file.layers[i].bv
            /\ m.out.kind = "array"
            /\ m.fresh_out = m.out

C18_Witness ==
    /\ nn # <<>>
    /\ nn[1].trained = 2 /\ nn[1].file.status = "ok"
    /\ nn[1].fresh # <<>> /\ nn[1].fresh_out.kind = "array"
    /\ nn[1].fresh_out = nn[1].out
    /\ nn[1].fresh[2].bv # 0
    /\ nn[1].fresh = nn[1].layers

\* what "d.dd" formatted from x thousandths reads as, in thousandths
TwoDecimals(x) == ((x + 5) \div 10) * 10

\* C19: for a rubric result with its five sub-scores in [0, 1], each
\* component score extracted from the feedback of score_article is the
\* sub-score as formatted to two decimals on the line of its label,
\* whatever the free text of the result is and wherever it goes
C19_ComponentsRoundTrip ==
    \A e \in {fb[i] : i \in 1..Len(fb)} :
        e.extracted =>
            /\ e.component_scores["lead_quality"] =
                  TwoDecimals(e.result.lead_quality)
            /\ e.component_scores["structure"] =
                  TwoDecimals(e.result.structure_score)
            /\ e.component_scores["vocabulary"] =
                  TwoDecimals(e.result.vocabulary_score)
            /\ e.component_scores["tone"] = TwoDecimals(e.result.tone_score)
            /\ e.component_scores["attribution"] =
                  TwoDecimals(e.result.attribution_score)

C19_Witness ==
    /\ fb # <<>> /\ fb[1].extracted
    /\ fb[1].result.tone_score = 850
    /\ fb[1].result.structure_score = 4
    /\ fb[1].result.free = <<Label("tone:", {"tone"}), Num(<<0, 1, 0>>)>>
    /\ fb[1].result.section = "strengths"
    /\ fb[1].component_scores["tone"] = 850
    /\ fb[1].component_scores["structure"] = 0

\* invoke running alone on a source with the responses of log[1..n]
RECURSIVE RunAlone(_, _, _)
RunAlone(source, log, n) ==
    IF n = 0 THEN FirstRequest(source)
    ELSE CHOOSE next \in {LoopStep(st, log[n]) :
                             st \in {RunAlone(source, log, n - 1)}} : TRUE

\* C14: in every interleaving of two invocations, the history, the draft,
\* the feedback and the result of each are those of the same invocation
\* running alone with the responses it has received, so nothing of the
\* other invocation is in them
C14_InvocationsIndependent ==
    \A i \in DOMAIN inv :
        /\ inv[i] = RunAlone(inv[i].source, inv[i].log, Len(inv[i].log))
        /\ Len(inv[i].history) =
              Cardinality({k \in 1..Len(inv[i].log) :
                              inv[i].log[k].kind = "verdict"})
        /\ \A k \in 1..Len(inv[i].history) :
              inv[i].history[k].iteration = k

C14_Witness ==
    /\ inv # <<>>
    /\ inv[1].pc = "exhausted" /\ Len(inv[1].history) = 2
    /\ inv[2].pc = "accepted" /\ Len(inv[2].history) = 1
    /\ inv[1].history[1].article # inv[2].history[1].article

\* C21: the history only grows, one record at its end per scored round,
\* record i has iteration = i, no record is changed once appended, and
\* the history of a WriteResult is that list
C21_HistoryAppendOnly ==
    /\ [](/\ \A k \in 1..Rounds : history[k].iteration = k
          /\ (pc # "scored" => Rounds = calls.score)
          /\ (result.shape = "WriteResult" => result.history = history))
    /\ [][\/ history' = history
          \/ /\ Len(history') = Len(history) + 1
             /\ SubSeq(history', 1, Len(history)) = history
             /\ calls'.score = calls.score + 1]_vars

C21_Witness ==
    /\ pc = "exhausted" /\ Rounds = 3
    /\ result.shape = "WriteResult" /\ result.history = history
    /\ history[3].iteration = 3

\* C22: the refine request of round n >= 2 carries the article and the
\* feedback of the record of round n - 1 as they were recorded, with the
\* source (cut to 8000 characters, as in the draft request) and the
\* framework context
C22_RefineCarriesPreviousRound ==
    (pc # "scored" /\ request # <<>> /\ request[1].kind = "refine") =>
        LET n == Requests
        IN /\ n >= 2
           /\ Rounds >= n - 1
           /\ request[1].article = history[n - 1].article
           /\ request[1].feedback = history[n - 1].feedback
           /\ request[1].source = Truncated(source_content)
           /\ request[1].framework_context =
                  PrepareFrameworkContext(framework)

\* round 3 is refined from round 2 although round 1 scored higher
C22_Witness ==
    /\ request # <<>> /\ request[1].kind = "refine"
    /\ Requests = 3 /\ Rounds >= 2
    /\ GT(history[1].score, history[2].score)
    /\ history[1].article # history[2].article
    /\ request[1].article = history[2].article
    /\ request[1].feedback = history[2].feedback
    /\ source_content = "long source"

\* C26: in a WriteResult iterations is the length of the history, no
\* record but the last passes, success says whether the last one passes,
\* and an accepted result carries the article and score of the last
C26_ResultConsistent ==
    result.shape = "WriteResult" =>
        LET h == result.history
            n == Len(h)
        IN /\ n >= 1
           /\ result.iterations = n
           /\ \A k \in 1..(n - 1) : ~h[k].passes
           /\ result.success <=> h[n].passes
           /\ (result.success =>
                 /\ result.final_article = h[n].article
                 /\ result.score = h[n].score)

C26_Witness ==
    /\ result.shape = "WriteResult" /\ ~result.success
    /\ Len(result.history) = 2 /\ result.iterations = 2
    /\ ~result.history[2].passes

\* every round so far had the rubric scorer fall back to the neutral 0.5
AllRoundsNeutral ==
    \A k \in 1..Rounds :
        /\ history[k].feedback.llm = Fin(Neutral)
        /\ history[k].feedback.llm_feedback.kind \in {"nokey", "failed"}

\* with a budget of at least one round, a neutral rubric score in every
\* round and a threshold above 0.65 end in exhaustion
NeutralRubricExhausts ==
    (pc # "scored" /\ max_iterations >= 1 /\ score_threshold > 650
        /\ AllRoundsNeutral) =>
        /\ ~SomeRoundPasses
        /\ ((InvocationOver /\ source_content # "") =>
              /\ pc = "exhausted"
              /\ Requests = max_iterations
              /\ ~result.success)

\* C27: when the rubric scorer falls back to 0.5 in every round and the
\* threshold is above 0.65, no round passes, and the invocation on a
\* source ends with exactly max_iterations requests made and a WriteResult
\* with success = false
C27_NeutralRubricNeverAccepted ==
    (pc # "scored" /\ score_threshold > 650 /\ AllRoundsNeutral) =>
        /\ ~SomeRoundPasses
        /\ ((InvocationOver /\ source_content # "") =>
              /\ Requests = max_iterations
              /\ result.shape = "WriteResult"
              /\ ~result.success)

\* the rounds whose score no finite score of the history exceeds
Highest ==
    {k \in 1..Rounds :
        /\ IsFinite(history[k].score)
        /\ \A j \in 1..Rounds :
              IsFinite(history[j].score) =>
                  GE(history[k].score, history[j].score)}

\* among finite scores a tie for the highest goes to the earliest round
FiniteTieGoesToEarliest ==
    (pc = "exhausted" /\ Cardinality(Highest) >= 2
        /\ \A k \in 1..Rounds : IsFinite(history[k].score)) =>
        /\ result.final_article = history[Min(Highest)].article
        /\ result.score = history[Min(Highest)].score

\* C28: on exhaustion, when several records share the highest score, the
\* article and score returned are those of the earliest of them
C28_TieGoesToEarliest ==
    (pc = "exhausted" /\ Cardinality(Highest) >= 2) =>
        /\ result.final_article = history[Min(Highest)].article
        /\ result.score = history[Min(Highest)].score

\* C23: a scoring call that reads a missing or half-written framework or
\* weight file degrades instead of raising, and the invocation still ends
\* with a WriteResult
C23_PartialFileDegrades ==
    /\ pc # "raised"
    /\ (InvocationOver => result.shape = "WriteResult")

\* the weight file alone: a round scored while the archive is missing or
\* half written takes the neutral statistical score and is recorded
UnreadableWeightsDegrade ==
    (scored # <<>> /\ scored[1].weights.status # "ok") =>
        /\ scored[1].out.verdict.feedback.stat = Fin(Neutral)
        /\ Rounds >= 1

\* C24: within one invocation every round's drafting prompt and every
\* round's scoring call use the same framework contents and the same
\* weights, whatever happens to the two files between the rounds
C24_LoadedOnceAndReused ==
    [][/\ (request # <<>> /\ request' # <<>>) =>
            request'[1].framework_context = request[1].framework_context
       /\ (scored # <<>> /\ scored' # <<>>) =>
            /\ scored'[1].summary = scored[1].summary
            /\ (scored'[1].weights.status = "ok") =
                   (scored[1].weights.status = "ok")
            /\ (scored[1].weights.status = "ok" =>
                   scored'[1].weights = scored[1].weights)]_vars

\* the drafting prompts alone do use the framework loaded at construction
PromptsUseLoadedFramework ==
    request # <<>> =>
        request[1].framework_context = PrepareFrameworkContext(framework)


\* the updates requested or running
Unfinished ==
    {t \in DOMAIN srv[1].tasks : srv[1].tasks[t].at \in {"queued", "running"}}

\* a request handled while style_guru_updating is set starts nothing, and
\* nothing is started when the components are missing
FlagRejects ==
    /\ Len(srv[1].tasks) =
          Cardinality({k \in DOMAIN srv[1].responses :
                          srv[1].responses[k] = 200})
    /\ (~srv[1].available => srv[1].tasks = <<>>)

\* C29: at most one update is requested or running at any time; a request
\* that arrives between the acceptance of an earlier one and the end of
\* its update is answered 409 and starts nothing
C29_AtMostOneUpdate == Cardinality(Unfinished) <= 1


\* the history record whose article the writer's result returns
Returned(res) ==
    IF res.success THEN res.history[Len(res.history)]
    ELSE BestAttempt(res.history, Len(res.history))

Faithful(res) ==
    LET out == RewriteOnly(res)
    IN /\ out.article.of = res.final_article
       /\ out.success = res.success
       /\ out.iterations = res.iterations
       /\ out.component_scores = <<Returned(res).feedback.llm_feedback>>

\* for an accepted result rewrite_only reports the writer's article, flag
\* and iteration count and reads the components from the accepted round
AcceptedRewriteFaithful ==
    (result.shape = "WriteResult" /\ result.success) => Faithful(result)

\* C30: for every result of the writer, accepted or exhausted,
\* rewrite_only returns the writer's final_article with the success flag
\* and the iteration count of that result and with the component scores
\* of the feedback of the history record whose article is returned
C30_RewriteReportsWriterResult ==
    result.shape = "WriteResult" => Faithful(result)


\* the output dimension of each layer is the input dimension of the next,
\* the first takes input_size numbers and the last gives one
ChainConsistent(layers, input_size) ==
    /\ layers # <<>>
    /\ layers[1].w[1] = input_size
    /\ layers[Len(layers)].w[2] = 1
    /\ \A i \in 1..(Len(layers) - 1) : layers[i].w[2] = layers[i + 1].w[1]

\* construction, train, predict, save, and load of an archive the same
\* architecture has saved keep the layers chain-consistent
OwnLayersConsistent ==
    /\ ChainConsistent(nn[1].layers, nn[1].input_size)
    /\ (nn[1].fresh # <<>> =>
            ChainConsistent(nn[1].fresh, nn[1].input_size))

\* C25: after construction and after any sequence of train, predict, save
\* and load, the load of an archive of another architecture included, the
\* layers of a model are chain-consistent, the first takes input_size
\* inputs and the last has one output
C25_LayersChainConsistent ==
    \A layers \in {nn[1].layers, nn[1].fresh, nn[1].other} \ {<<>>} :
        ChainConsistent(layers, nn[1].input_size)

====
